---- MODULE Spec2Model ----
(***************************************************************************)
(* Model of room_util.py: one run of main().  The run establishes an       *)
(* OAuth session (create_google_oauth_session), queries the calendar       *)
(* service once per room (generate_room_util_report), formats the report   *)
(* and posts it as one task (post_all_in_asana_task).  An uncaught Python  *)
(* exception is the terminal position pc = "aborted".                      *)
(*                                                                         *)
(* OAuth2Session (requests_oauthlib) is the collaborator the code          *)
(* configures at lines 53-62: a request made with an expired token and an  *)
(* auto_refresh_url first calls refresh_token and hands the new token to   *)
(* token_updater.                                                          *)
(***************************************************************************)
EXTENDS Integers, Sequences, FiniteSets

\* ---------------------------------------------------------------- bounds
MaxRooms == 2
MaxReportRooms == 3
MaxSeats == 3
MaxEvents == 2
MaxAttendees == 2
MaxTime == 3
TokenLifetime == 1

\* ------------------------------------------------------------ value sets
ResponseStatuses == {"accepted", "declined"}
HttpStatuses == {200, 404, 500}
AuthCodes == {"valid", "invalid"}

NoToken == [id |-> -1, expires_at |-> -1]
NoCode == "none"

\* all sequences over S of length 0..n
RECURSIVE SeqsUpTo(_, _)
SeqsUpTo(S, n) ==
    IF n = 0 THEN {<<>>}
    ELSE LET shorter == SeqsUpTo(S, n - 1)
         IN  shorter \cup {Append(s, x) : s \in {t \in shorter : Len(t) = n - 1}, x \in S}

\* rooms.json: {rooms: [{name, url, room_seats}]}; the name of a room is its
\* position in the file, so that names are distinct
RoomLists(n) ==
    {[i \in 1..Len(seats) |-> [name |-> i, room_seats |-> seats[i]]] :
        seats \in SeqsUpTo(0..MaxSeats, n)}

\* google_oauth_token.json of an earlier run: expired already, expiring
\* during the run, or good for all of it
PersistedTokens == {[id |-> 0, expires_at |-> e] : e \in 0..MaxTime}

\* an event of the calendar API: the attendees key is optional
Events ==
    {[has_attendees |-> FALSE, attendees |-> <<>>]}
    \cup {[has_attendees |-> TRUE, attendees |-> a] :
            a \in SeqsUpTo(ResponseStatuses, MaxAttendees)}

\* the JSON body of an events response: the items key is optional
Bodies ==
    {[has_items |-> FALSE, items |-> <<>>]}
    \cup {[has_items |-> TRUE, items |-> e] : e \in SeqsUpTo(Events, MaxEvents)}

VARIABLES
    pc,                        \* position of the run
    abort_reason,              \* the uncaught exception, "" while running
    client_secret_file,        \* client_secret.json: "ok" or "missing"
    token_file,                \* google_oauth_token.json, NoToken when absent
    session_token,             \* google_oauth_session.token
    now,                       \* the clock the session compares expires_at with
    code,                      \* the authorization code the operator typed
    authorization_urls_shown,  \* prompts printed (line 66)
    codes_read,                \* raw_input calls (line 68)
    token_exchanges,           \* fetch_token calls (line 70)
    refresh_calls,             \* refresh_token calls made by the session
    room_list,                 \* rooms.json
    room_idx,                  \* position of the for loop of line 89
    queries,                   \* rooms whose events query was issued, in order
    responses,                 \* what the calendar service answered, in order
    inflight,                  \* queries issued and not yet answered
    events,                    \* line 112
    event_idx,                 \* position of the for loop of line 117
    number_of_meetings,
    number_of_attendees,
    max_capacity,
    room_utilization_strs,     \* line 84
    report_string,             \* <<>> until generate_room_util_report returns
    task_calls,                \* asana_client.tasks.create calls
    tasks                      \* tasks created in the task tracker

vars == <<pc, abort_reason, client_secret_file, token_file, session_token, now,
          code, authorization_urls_shown, codes_read, token_exchanges,
          refresh_calls, room_list, room_idx, queries, responses, inflight,
          events, event_idx, number_of_meetings, number_of_attendees,
          max_capacity, room_utilization_strs, report_string, task_calls, tasks>>

authVars == <<code, authorization_urls_shown, codes_read, token_exchanges>>
tokenVars == <<token_file, session_token, refresh_calls>>
calVars == <<queries, responses, inflight>>
roomVars == <<events, event_idx, number_of_meetings, number_of_attendees, max_capacity>>
outVars == <<room_utilization_strs, report_string, task_calls, tasks>>
fixedVars == <<client_secret_file, room_list>>

\* ------------------------------------------------------- pure functions

\* oauthlib: a token is expired when its expires_at lies before the clock
Expired(token, t) == token.expires_at < t

\* the token the authorization server issues at time t
NewToken(old, t) == [id |-> old.id + 1, expires_at |-> t + TokenLifetime]

\* save_token_as_json: the file is opened with 'w' and holds the token
save_token_as_json(token) == token

\* variant: a session without a token_updater leaves the file as it is
NoTokenUpdater(file, token) == file
\* token_updater=save_token_as_json: what the file holds after the session
\* obtained token
TokenUpdater(file, token) == save_token_as_json(token)

\* variant: the status of the response is not checked
RaiseNever(status) == FALSE
\* events_response.raise_for_status(): HTTPError for 4xx and 5xx
raise_for_status(status) == status >= 400 /\ status < 600

\* events_response.json().get('items', [])
Items(body) == IF body.has_items THEN body.items ELSE <<>>

IsNotDeclined(status) == status # "declined"

\* variant: a missing attendee list is read as an empty one
CountMissingAsZero(event) ==
    Len(SelectSeq(event.attendees, IsNotDeclined))
\* variant: every attendee of the list is counted
CountDeclinedToo(event) ==
    IF ~event.has_attendees THEN 1 ELSE Len(event.attendees)
\* lines 118-123: what one event adds to number_of_attendees
AttendeesOf(event) ==
    IF ~event.has_attendees
    THEN 1
    ELSE Len(SelectSeq(event.attendees, IsNotDeclined))

\* '{:0.2f}'.format((attendees / capacity) * 100), as a number of hundredths.
\* The float is within 2^-50 of the quotient and a quotient that is no tie
\* lies at least 1/(2 * capacity) hundredths from one, so the digits are those
\* of the exact quotient.  A tie needs a capacity that is a multiple of 64;
\* Python then rounds the float it computed, to the even neighbour when the
\* float is the tie itself.
Format2f(attendees, capacity) ==
    LET n == 10000 * attendees
        q == n \div capacity
        r == n % capacity
    IN  IF 2 * r < capacity THEN q
        ELSE IF 2 * r > capacity THEN q + 1
        ELSE IF q % 2 = 0 THEN q ELSE q + 1

\* '{} Utilization %: {:0.2f}'.format(room_name, util)
Line(room_name, util) == [kind |-> "line", name |-> room_name, util |-> util]
Newline == [kind |-> "nl", name |-> 0, util |-> 0]
Preamble == [kind |-> "preamble", name |-> 0, util |-> 0]

\* variant: every line is followed by a newline
RECURSIVE JoinTerminated(_)
JoinTerminated(strs) ==
    IF strs = <<>> THEN <<>>
    ELSE <<strs[1], Newline>> \o JoinTerminated(Tail(strs))
\* '\n'.join(strs)
RECURSIVE Join(_)
Join(strs) ==
    IF strs = <<>> THEN <<>>
    ELSE IF Len(strs) = 1 THEN <<strs[1]>>
    ELSE <<strs[1], Newline>> \o Join(Tail(strs))

\* ------------------------------------------------------------------ Init
InitRun(secret_files, token_files, room_lists) ==
    /\ pc = "start"
    /\ abort_reason = ""
    /\ client_secret_file \in secret_files
    /\ token_file \in token_files
    /\ session_token = NoToken
    /\ now = 1
    /\ code = NoCode
    /\ authorization_urls_shown = 0
    /\ codes_read = 0
    /\ token_exchanges = 0
    /\ refresh_calls = 0
    /\ room_list \in room_lists
    /\ room_idx = 1
    /\ queries = <<>>
    /\ responses = <<>>
    /\ inflight = 0
    /\ events = <<>>
    /\ event_idx = 1
    /\ number_of_meetings = 0
    /\ number_of_attendees = 0
    /\ max_capacity = 0
    /\ room_utilization_strs = <<>>
    /\ report_string = <<>>
    /\ task_calls = 0
    /\ tasks = <<>>

\* any run of main
Init == InitRun({"ok", "missing"}, {NoToken} \cup PersistedTokens, RoomLists(MaxRooms))

\* the runs that start with a persisted token good for the whole run
InitReport ==
    InitRun({"ok"}, {[id |-> 0, expires_at |-> MaxTime]}, RoomLists(MaxReportRooms))

Abort(reason) ==
    /\ pc' = "aborted"
    /\ abort_reason' = reason

\* --------------------------------------------------------------- actions

\* time passes; it is observed only when the session is about to send a request
Tick ==
    /\ pc = "get"
    /\ now < MaxTime
    /\ now' = now + 1
    /\ UNCHANGED <<pc, abort_reason, authVars, tokenVars, calVars, roomVars,
                   outVars, fixedVars, room_idx>>

\* lines 37-48: the client secrets are read first
LoadClientSecret ==
    /\ pc = "start"
    /\ IF client_secret_file = "ok"
       THEN pc' = "session" /\ UNCHANGED abort_reason
       ELSE Abort("IOError")
    /\ UNCHANGED <<now, authVars, tokenVars, calVars, roomVars, outVars,
                   fixedVars, room_idx>>

\* lines 50-56: a persisted token is loaded, whatever its expiry
LoadToken ==
    /\ pc = "session"
    /\ token_file # NoToken
    /\ session_token' = token_file
    /\ pc' = "loop"
    /\ UNCHANGED <<abort_reason, now, authVars, token_file, refresh_calls,
                   calVars, roomVars, outVars, fixedVars, room_idx>>

\* variant: the prompt does not depend on the token file
PromptAuthorizationAlways ==
    /\ pc = "session"
    /\ authorization_urls_shown' = authorization_urls_shown + 1
    /\ codes_read' = codes_read + 1
    /\ \E typed \in AuthCodes : code' = typed
    /\ pc' = "fetch_token"
    /\ UNCHANGED <<abort_reason, now, token_exchanges, tokenVars, calVars,
                   roomVars, outVars, fixedVars, room_idx>>
\* lines 57-68: the authorization URL is printed and the code is read
PromptAuthorization ==
    /\ pc = "session"
    /\ token_file = NoToken
    /\ authorization_urls_shown' = authorization_urls_shown + 1
    /\ codes_read' = codes_read + 1
    /\ \E typed \in AuthCodes : code' = typed
    /\ pc' = "fetch_token"
    /\ UNCHANGED <<abort_reason, now, token_exchanges, tokenVars, calVars,
                   roomVars, outVars, fixedVars, room_idx>>

\* variant: the exchanged token is not persisted
FetchTokenNoSave ==
    /\ pc = "fetch_token"
    /\ token_exchanges' = token_exchanges + 1
    /\ IF code = "valid"
       THEN /\ session_token' = NewToken(NoToken, now)
            /\ pc' = "loop"
            /\ UNCHANGED <<abort_reason, token_file>>
       ELSE /\ Abort("OAuth2Error")
            /\ UNCHANGED <<session_token, token_file>>
    /\ UNCHANGED <<now, code, authorization_urls_shown, codes_read, refresh_calls,
                   calVars, roomVars, outVars, fixedVars, room_idx>>
\* lines 70-75: the code is exchanged and the token persisted
FetchToken ==
    /\ pc = "fetch_token"
    /\ token_exchanges' = token_exchanges + 1
    /\ IF code = "valid"
       THEN /\ session_token' = NewToken(NoToken, now)
            /\ token_file' = save_token_as_json(session_token')
            /\ pc' = "loop"
            /\ UNCHANGED abort_reason
       ELSE /\ Abort("OAuth2Error")
            /\ UNCHANGED <<session_token, token_file>>
    /\ UNCHANGED <<now, code, authorization_urls_shown, codes_read, refresh_calls,
                   calVars, roomVars, outVars, fixedVars, room_idx>>

\* variant: number_of_attendees is not reset for the next room
LoopNextNoReset ==
    /\ pc = "loop"
    /\ IF room_idx <= Len(room_list)
       THEN /\ pc' = "get"
            /\ number_of_meetings' = 0
            /\ max_capacity' = 0
            /\ UNCHANGED number_of_attendees
       ELSE /\ pc' = "format"
            /\ UNCHANGED <<number_of_meetings, number_of_attendees, max_capacity>>
    /\ UNCHANGED <<abort_reason, now, authVars, tokenVars, calVars, events,
                   event_idx, outVars, fixedVars, room_idx>>
\* lines 89-97: the next room, its counters reset; or the end of the loop
LoopNext ==
    /\ pc = "loop"
    /\ IF room_idx <= Len(room_list)
       THEN /\ pc' = "get"
            /\ number_of_meetings' = 0
            /\ number_of_attendees' = 0
            /\ max_capacity' = 0
       ELSE /\ pc' = "format"
            /\ UNCHANGED <<number_of_meetings, number_of_attendees, max_capacity>>
    /\ UNCHANGED <<abort_reason, now, authVars, tokenVars, calVars, events,
                   event_idx, outVars, fixedVars, room_idx>>

\* lines 108-109, the sending half of google_oauth_session.get: an expired
\* token is refreshed and handed to token_updater before the request leaves
SessionGet ==
    /\ pc = "get"
    /\ IF Expired(session_token, now)
       THEN /\ refresh_calls' = refresh_calls + 1
            /\ \E granted \in BOOLEAN :
                 IF granted
                 THEN /\ session_token' = NewToken(session_token, now)
                      /\ token_file' = TokenUpdater(token_file, session_token')
                      /\ queries' = Append(queries, room_idx)
                      /\ inflight' = inflight + 1
                      /\ pc' = "await"
                      /\ UNCHANGED abort_reason
                 ELSE /\ Abort("OAuth2Error")
                      /\ UNCHANGED <<session_token, token_file, queries, inflight>>
       ELSE /\ queries' = Append(queries, room_idx)
            /\ inflight' = inflight + 1
            /\ pc' = "await"
            /\ UNCHANGED <<abort_reason, tokenVars>>
    /\ UNCHANGED <<now, authVars, responses, roomVars, outVars, fixedVars, room_idx>>

\* lines 108-116, the receiving half: the status is checked, the events are
\* read, and a room without events is skipped
Response ==
    /\ pc = "await"
    /\ \E status \in HttpStatuses, body \in Bodies :
         /\ status = 200 \/ body = [has_items |-> FALSE, items |-> <<>>]
         /\ inflight' = inflight - 1
         /\ responses' = Append(responses,
                [room |-> room_idx, status |-> status,
                 n_events |-> IF status = 200 THEN Len(Items(body)) ELSE 0])
         /\ IF raise_for_status(status)
            THEN /\ Abort("HTTPError")
                 /\ UNCHANGED <<events, event_idx, room_idx>>
            ELSE /\ events' = Items(body)
                 /\ event_idx' = 1
                 /\ UNCHANGED abort_reason
                 /\ IF events' = <<>>
                    THEN pc' = "loop" /\ room_idx' = room_idx + 1
                    ELSE pc' = "event" /\ UNCHANGED room_idx
    /\ UNCHANGED <<now, authVars, tokenVars, queries, number_of_meetings,
                   number_of_attendees, max_capacity, outVars, fixedVars>>

\* lines 117-123: one iteration of the loop over the events
CountEvent ==
    /\ pc = "event"
    /\ number_of_attendees' = number_of_attendees + AttendeesOf(events[event_idx])
    /\ event_idx' = event_idx + 1
    /\ pc' = IF event_idx' > Len(events) THEN "compute" ELSE "event"
    /\ UNCHANGED <<abort_reason, now, authVars, tokenVars, calVars, events,
                   number_of_meetings, max_capacity, outVars, fixedVars, room_idx>>

\* variant: a room without capacity is skipped instead of dividing
ComputeGuarded ==
    /\ pc = "compute"
    /\ number_of_meetings' = Len(events)
    /\ max_capacity' = number_of_meetings' * room_list[room_idx].room_seats
    /\ room_utilization_strs' =
          IF max_capacity' = 0 THEN room_utilization_strs
          ELSE Append(room_utilization_strs,
                   Line(room_list[room_idx].name,
                        Format2f(number_of_attendees, max_capacity')))
    /\ room_idx' = room_idx + 1
    /\ pc' = "loop"
    /\ UNCHANGED <<abort_reason, report_string, task_calls, tasks>>
    /\ UNCHANGED <<now, authVars, tokenVars, calVars, events, event_idx,
                   number_of_attendees, fixedVars>>
\* lines 125-130: the utilization of the room and its line; the division
\* raises ZeroDivisionError when the capacity is zero
Compute ==
    /\ pc = "compute"
    /\ number_of_meetings' = Len(events)
    /\ max_capacity' = number_of_meetings' * room_list[room_idx].room_seats
    /\ IF max_capacity' = 0
       THEN /\ Abort("ZeroDivisionError")
            /\ UNCHANGED <<room_utilization_strs, room_idx>>
       ELSE /\ room_utilization_strs' =
                  Append(room_utilization_strs,
                      Line(room_list[room_idx].name,
                           Format2f(number_of_attendees, max_capacity')))
            /\ room_idx' = room_idx + 1
            /\ pc' = "loop"
            /\ UNCHANGED abort_reason
    /\ UNCHANGED <<report_string, task_calls, tasks>>
    /\ UNCHANGED <<now, authVars, tokenVars, calVars, events, event_idx,
                   number_of_attendees, fixedVars>>

\* lines 132-145: the report is the preamble followed by the joined lines
FormatReport ==
    /\ pc = "format"
    /\ report_string' = <<Preamble>> \o Join(room_utilization_strs)
    /\ pc' = "post"
    /\ UNCHANGED <<abort_reason, now, authVars, tokenVars, calVars, roomVars,
                   room_utilization_strs, task_calls, tasks, fixedVars, room_idx>>

\* variant: no task is created for a report without lines
PostTaskUnlessEmpty ==
    /\ pc = "post"
    /\ IF room_utilization_strs = <<>>
       THEN /\ pc' = "done"
            /\ UNCHANGED <<abort_reason, task_calls, tasks>>
       ELSE /\ task_calls' = task_calls + 1
            /\ \E accepted \in BOOLEAN :
                 IF accepted
                 THEN /\ tasks' = Append(tasks, report_string)
                      /\ pc' = "done"
                      /\ UNCHANGED abort_reason
                 ELSE /\ Abort("AsanaError")
                      /\ UNCHANGED tasks
    /\ UNCHANGED <<now, authVars, tokenVars, calVars, roomVars,
                   room_utilization_strs, report_string, fixedVars, room_idx>>
\* lines 148-163 and 184-185: the task is created, or the tracker refuses
PostTask ==
    /\ pc = "post"
    /\ task_calls' = task_calls + 1
    /\ \E accepted \in BOOLEAN :
         IF accepted
         THEN /\ tasks' = Append(tasks, report_string)
              /\ pc' = "done"
              /\ UNCHANGED abort_reason
         ELSE /\ Abort("AsanaError")
              /\ UNCHANGED tasks
    /\ UNCHANGED <<now, authVars, tokenVars, calVars, roomVars,
                   room_utilization_strs, report_string, fixedVars, room_idx>>

Next ==
    \/ Tick
    \/ LoadClientSecret
    \/ LoadToken
    \/ PromptAuthorization
    \/ FetchToken
    \/ LoopNext
    \/ SessionGet
    \/ Response
    \/ CountEvent
    \/ Compute
    \/ FormatReport
    \/ PostTask

Spec == Init /\ [][Next]_vars

NextReport ==
    \/ LoadClientSecret
    \/ LoadToken
    \/ LoopNext
    \/ SessionGet
    \/ Response
    \/ CountEvent
    \/ Compute
    \/ FormatReport
    \/ PostTask

SpecReport == InitReport /\ [][NextReport]_vars

\* ------------------------------------------------------------ properties

Abs(x) == IF x < 0 THEN -x ELSE x

\* the attendees of a list that did not decline, counted as a set of positions
NonDeclined(attendees) ==
    Cardinality({k \in DOMAIN attendees : attendees[k] # "declined"})

\* what the spec counts for one event: the organizer, or those who did not decline
Counted(event) ==
    IF event.has_attendees THEN NonDeclined(event.attendees) ELSE 1

\* the attendee count of a response over its own events
RECURSIVE CountedUpTo(_, _)
CountedUpTo(evs, n) ==
    IF n = 0 THEN 0 ELSE CountedUpTo(evs, n - 1) + Counted(evs[n])

\* the rooms among the first n answered whose query returned events
Kept(n) == {m \in 1..n : responses[m].n_events > 0}

LastLine == room_utilization_strs[Len(room_utilization_strs)]

\* C1: when a room with events has been processed, its line carries the room's
\* name and 100 * A / (M * S) rounded to two decimals, A counted over the
\* room's own events only
C1_Utilization ==
    (pc = "loop" /\ events # <<>>) =>
        LET room == room_list[room_idx - 1]
            M == Len(events)
            S == room.room_seats
            A == CountedUpTo(events, M)
        IN  /\ room_utilization_strs # <<>>
            /\ LastLine.kind = "line"
            /\ LastLine.name = room.name
            /\ 2 * Abs(LastLine.util * M * S - 10000 * A) <= M * S

\* a second room's line that needed rounding (66.67), after a first room with
\* attendees of its own
C1_Witness ==
    /\ pc = "loop"
    /\ events # <<>>
    /\ Len(room_utilization_strs) = 2
    /\ room_utilization_strs[1].util > 0
    /\ LastLine.util = 6667

\* C2: the room section of the returned report is one line per room that
\* returned events, in room-list order, separated by single newlines; a room
\* without events has no line
C2_RoomSection ==
    report_string # <<>> =>
        LET n == Len(room_list)
            k == Cardinality(Kept(n))
        IN  /\ Len(responses) = n
            /\ report_string[1] = Preamble
            /\ Len(report_string) = 1 + (IF k = 0 THEN 0 ELSE 2 * k - 1)
            /\ \A i \in Kept(n) :
                 LET j == Cardinality(Kept(i))
                 IN  /\ report_string[2 * j].kind = "line"
                     /\ report_string[2 * j].name = room_list[i].name
                     /\ j < k => report_string[2 * j + 1] = Newline

\* a report of three rooms, the second without events: two lines, one newline
C2_Witness ==
    /\ report_string # <<>>
    /\ Len(room_list) = 3
    /\ Kept(3) = {1, 3}
    /\ Len(report_string) = 4
    /\ report_string[2].name = 1
    /\ report_string[4].name = 3

\* C3: an event without an attendee list adds exactly 1 to the count
C3_ImplicitAttendee ==
    [][(pc = "event" /\ ~events[event_idx].has_attendees) =>
          number_of_attendees' = number_of_attendees + 1]_vars

\* an event without attendees was counted for a room of three seats
C3_Witness ==
    /\ pc \in {"event", "compute"}
    /\ event_idx = 3
    /\ ~events[2].has_attendees
    /\ events[1].has_attendees
    /\ room_list[room_idx].room_seats = 3
    /\ number_of_attendees = 1 + NonDeclined(events[1].attendees)

\* C4: an event with an attendee list adds the number of its attendees that
\* did not decline
C4_DeclinedExcluded ==
    [][(pc = "event" /\ events[event_idx].has_attendees) =>
          number_of_attendees' =
              number_of_attendees + NonDeclined(events[event_idx].attendees)]_vars

\* the list of one declined and one accepted attendee was counted as 1
C4_Witness ==
    /\ pc \in {"event", "compute"}
    /\ event_idx = 2
    /\ events[1] = [has_attendees |-> TRUE, attendees |-> <<"declined", "accepted">>]
    /\ number_of_attendees = 1

NoPrompt ==
    /\ authorization_urls_shown = 0
    /\ codes_read = 0
    /\ token_exchanges = 0

\* C5: a run that starts with a persisted valid token never shows the
\* authorization URL, never reads a code and never exchanges one
C5_NoPrompt ==
    (token_file # NoToken /\ ~Expired(token_file, now)) => []NoPrompt

\* a run that started with a persisted token has queried a room
C5_Witness ==
    /\ NoPrompt
    /\ session_token # NoToken
    /\ Len(responses) >= 1
    /\ pc = "done"

\* C6: a request made with an expired token first makes a refresh call, and a
\* request that leaves carries a fresh token that is the content of the token
\* file; whenever the session holds a token the file holds that token
C6_RefreshPersisted ==
    [][/\ (pc = "get" /\ pc' # "get" /\ Expired(session_token, now)) =>
            /\ refresh_calls' = refresh_calls + 1
            /\ pc' = "await" =>
                 /\ session_token'.id = session_token.id + 1
                 /\ ~Expired(session_token', now')
                 /\ token_file' = session_token'
       /\ session_token' # NoToken => token_file' = session_token']_vars

\* two requests of one run were each preceded by a refresh
C6_Witness ==
    /\ refresh_calls = 2
    /\ session_token.id = 2
    /\ token_file = session_token
    /\ Len(responses) = 2

IsError(status) == status < 200 \/ status >= 300

\* C7: once the calendar service answered a room with an error status the run
\* is aborted with that room the last one queried, queried once, and there is
\* neither a report nor a task
C7_HttpErrorAborts ==
    \A i \in DOMAIN responses :
        IsError(responses[i].status) =>
            /\ pc = "aborted"
            /\ abort_reason = "HTTPError"
            /\ i = Len(responses)
            /\ queries = [m \in 1..i |-> m]
            /\ inflight = 0
            /\ report_string = <<>>
            /\ task_calls = 0
            /\ tasks = <<>>

\* the second of two rooms was answered with an error after the first got its line
C7_Witness ==
    /\ Len(room_list) = 2
    /\ Len(responses) = 2
    /\ IsError(responses[2].status)
    /\ Len(room_utilization_strs) = 1
    /\ pc = "aborted"

\* C8 as stated: a run with a room of zero seats creates no task
C8_ZeroSeatsAlwaysFatal ==
    (\E i \in DOMAIN room_list : room_list[i].room_seats = 0) => tasks = <<>>

\* C8 amended: a room of zero seats whose query returned events ends the run
\* with ZeroDivisionError once its events are counted: no later room is
\* queried, and there is neither a report nor a task
C8_ZeroSeatsWithEvents ==
    \A i \in DOMAIN responses :
        (room_list[i].room_seats = 0 /\ responses[i].n_events > 0) =>
            /\ i = Len(responses)
            /\ queries = [m \in 1..i |-> m]
            /\ report_string = <<>>
            /\ task_calls = 0
            /\ tasks = <<>>
            /\ \/ pc \in {"event", "compute"}
               \/ pc = "aborted" /\ abort_reason = "ZeroDivisionError"

\* the second room has no seats and returned events: the run was aborted
C8_Witness ==
    /\ Len(responses) = 2
    /\ room_list[2].room_seats = 0
    /\ responses[2].n_events > 0
    /\ Len(room_utilization_strs) = 1
    /\ pc = "aborted"
    /\ abort_reason = "ZeroDivisionError"

\* C9: without a token file the session is created by one prompt and one
\* exchange; a query is issued only after the exchanged token was persisted;
\* an invalid code aborts the run with no token file, no query and no task
C9_FirstRun ==
    [][/\ (pc = "session" /\ token_file = NoToken) =>
            /\ authorization_urls_shown' = 1
            /\ codes_read' = 1
            /\ pc' = "fetch_token"
       /\ (pc = "fetch_token" /\ code = "valid") =>
            /\ token_exchanges' = 1
            /\ session_token' # NoToken
            /\ token_file' = session_token'
            /\ queries' = <<>>
       /\ (pc = "fetch_token" /\ code = "invalid") =>
            /\ token_exchanges' = 1
            /\ pc' = "aborted"
       /\ queries' # <<>> => token_file' # NoToken
       /\ (code' = "invalid" /\ pc' # "fetch_token") =>
            /\ pc' = "aborted"
            /\ token_file' = NoToken
            /\ queries' = <<>>
            /\ task_calls' = 0
            /\ tasks' = <<>>]_vars

\* a first run whose exchanged token was persisted before its queries
C9_Witness ==
    /\ code = "valid"
    /\ token_exchanges = 1
    /\ authorization_urls_shown = 1
    /\ token_file # NoToken
    /\ Len(queries) = 2
    /\ pc = "done"

\* C10: queries are issued one per room in room-list order, each answered
\* before the next, none before the session exists; a task is created only
\* after every room was answered, and a run that completes created exactly one
C10_Sequencing ==
    /\ queries = [m \in 1..Len(queries) |-> m]
    /\ Len(queries) <= Len(room_list)
    /\ inflight = Len(queries) - Len(responses)
    /\ inflight \in {0, 1}
    /\ queries # <<>> => session_token # NoToken
    /\ task_calls <= 1
    /\ task_calls = 1 => Len(responses) = Len(room_list)
    /\ pc = "done" =>
         /\ task_calls = 1
         /\ Len(tasks) = 1
         /\ tasks[1] = report_string
         /\ \A i \in DOMAIN responses : responses[i].room = i

\* a completed run in which both rooms were skipped: one task, no line
C10_Witness ==
    /\ pc = "done"
    /\ Len(room_list) = 2
    /\ Len(queries) = 2
    /\ room_utilization_strs = <<>>
    /\ Len(tasks) = 1

====
